---- MODULE Spec2Model ----
(***************************************************************************)
(* Parallel nonce search of ore-cli.                                       *)
(*                                                                         *)
(*   Spec           Miner::find_hash_par, the bounded search               *)
(*                  (src/src/mine.rs)                                      *)
(*   ZeroFloorSpec  the same for min_difficulty = 0, with fairness         *)
(*   BenchSpec      the benchmark                                          *)
(*                  (src/drillx/examples/example-2/src/main.rs)            *)
(*   PrintSpec      print of the benchmark, on histograms drawn from       *)
(*                  bounded sets                                           *)
(*   PartSpec       the start nonces of both, for each worker count        *)
(*                                                                         *)
(* The 64-bit nonce is modelled with NonceBits bits, so that MAX_NONCE is  *)
(* 2^NonceBits - 1 and a worker can reach the end of the nonce domain.     *)
(* The hash function is external: HashWithMemory stands for it, a fixed    *)
(* function of the challenge and the nonce.                                *)
(***************************************************************************)
EXTENDS Integers, Sequences, FiniteSets, TLC

VARIABLES
    \* ---- arguments of find_hash_par / of the benchmark, fixed for a session
    cores,                  \* mine.rs:95   cores
    cutoff_time,            \* mine.rs:94   cutoff_time (seconds)
    min_difficulty,         \* mine.rs:96   min_difficulty
    challenge,              \* mine.rs:122  proof.challenge, main.rs:17 challenge
    \* ---- the wall clock, in whole seconds
    now,
    \* ---- one worker (spawn_blocking closure / rayon item) per index
    pc,                     \* position of each worker in its loop
    timer,                  \* mine.rs:112  timer (main.rs:33 local_timer)
    nonce,                  \* mine.rs:113  nonce (main.rs:30)
    best_nonce,             \* mine.rs:114
    best_difficulty,        \* mine.rs:115
    best_hash,              \* mine.rs:116
    seen_global,            \* mine.rs:139  the copy read at a checkpoint
    scanned,                \* history: the nonces each worker has hashed
    \* ---- shared by the workers of find_hash_par
    global_best_difficulty, \* mine.rs:100
    message,                \* mine.rs:99   the progress bar's message
    statusBy,               \* history: the workers that set a status message
    \* ---- the join loop of find_hash_par
    joined,                 \* number of handles awaited so far
    ret_nonce,              \* mine.rs:173  best_nonce
    ret_difficulty,         \* mine.rs:174  best_difficulty
    ret_hash,               \* mine.rs:175  best_hash
    solution,               \* mine.rs:201  the Solution returned
    returned,
    overrun,                \* history: hashes of each worker since the stop
                            \* condition last became true
    \* ---- the width of the nonce in this session, in bits
    nonce_bits,
    \* ---- the benchmark (example-2 main.rs)
    threads,                \* main.rs:10   threads
    main_timer,             \* main.rs:14   timer
    hash_count,             \* main.rs:20   difficulty -> count, keys made lazily
    total_hashes,           \* main.rs:21
    hash_lock,              \* main.rs:20   holders of the mutex of hash_count
    diff,                   \* main.rs:39   diff of each worker
    loaded,                 \* main.rs:52   total_hashes as loaded for print
    reports,                \* history: the lines printed, each with its author
                            \* and its total
    bench_done,             \* main.rs:67   the final line is printed
    \* ---- the start nonces computed for one worker count (PartSpec)
    part

mineVars == <<cores, cutoff_time, min_difficulty, challenge, now, pc, timer, nonce,
              best_nonce, best_difficulty, best_hash, seen_global, scanned,
              global_best_difficulty, message, statusBy, joined, ret_nonce,
              ret_difficulty, ret_hash, solution, returned, overrun, nonce_bits>>

benchVars == <<threads, main_timer, hash_count, total_hashes, hash_lock, diff,
               loaded, reports, bench_done, part>>

\* what the benchmark leaves alone
searchVars == <<cores, cutoff_time, min_difficulty, best_nonce, best_difficulty,
                best_hash, seen_global, global_best_difficulty, message, statusBy,
                joined, ret_nonce, ret_difficulty, ret_hash, solution, returned,
                overrun, nonce_bits>>

vars == <<mineVars, benchVars>>

-----------------------------------------------------------------------------
(* Bounds of the model.                                                    *)

NonceBits == 7          \* width of the nonce (u64 in the code)
MaxCores == 2           \* worker counts 1..MaxCores
MaxCutoff == 1          \* cutoff_time in 0..MaxCutoff seconds
MaxMinDifficulty == 2   \* min_difficulty in 0..MaxMinDifficulty
MaxChallenge == 1       \* challenges 0..MaxChallenge
MaxStartDelay == 0      \* every worker starts within this many seconds

MaxTime == MaxStartDelay + MaxCutoff

(* Program constants.                                                      *)

CHECKPOINT == 100       \* mine.rs:138  nonce % 100 == 0
BYTE == 256             \* one u8 of nonce.to_le_bytes()
NONCE_BYTES == 8        \* u64::to_le_bytes yields 8 bytes

MAX_NONCE == 2 ^ nonce_bits - 1     \* u64::MAX

AllWorkers == 0 .. (MaxCores - 1)
Workers == 0 .. (cores - 1)

-----------------------------------------------------------------------------
(* Integer helpers of the standard library.                                *)

SaturatingDiv(a, b) == a \div b     \* u64::saturating_div, b > 0

SaturatingMul(a, b) == IF a * b > MAX_NONCE THEN MAX_NONCE ELSE a * b

SaturatingSub(a, b) == IF a > b THEN a - b ELSE 0

RECURSIVE LeBytes(_, _)
LeBytes(n, k) == IF k = 0 THEN <<>> ELSE <<n % BYTE>> \o LeBytes(n \div BYTE, k - 1)

\* nonce.to_le_bytes()
ToLeBytes(n) == LeBytes(n, NONCE_BYTES)

RECURSIVE FromLeBytes(_)
FromLeBytes(bytes) ==
    IF bytes = <<>> THEN 0 ELSE Head(bytes) + BYTE * FromLeBytes(Tail(bytes))

SetMax(S) == CHOOSE x \in S : \A y \in S : y <= x

SetMin(S) == CHOOSE x \in S : \A y \in S : x <= y

-----------------------------------------------------------------------------
(* The external hash function (drillx).  A hash is a digest d and a hash   *)
(* value h; its difficulty is derived from h.  The outcome depends on the  *)
(* challenge and the nonce bytes only; challenge 0 never yields a result.  *)

DefaultHash == [d |-> 0, h |-> 0]       \* Hash::default()

HashWithMemory(c, bytes) ==
    LET n == FromLeBytes(bytes)
        r == (n * c + 4 * c + 3) % 7
    IN  IF r <= 2 THEN [ok |-> TRUE, hx |-> [d |-> n + 1, h |-> r]]
                  ELSE [ok |-> FALSE, hx |-> DefaultHash]

Difficulty(hx) == hx.h                  \* hx.difficulty()

-----------------------------------------------------------------------------
(* find_hash_par: the workers.                                             *)

\* the worker index left out of the start nonce
StartNonce_NoIndex(n, i) == SaturatingDiv(MAX_NONCE, n)

\* the multiplication before the division
StartNonce_MulFirst(n, i) == SaturatingDiv(SaturatingMul(MAX_NONCE, i), n)

\* mine.rs:113
StartNonce(n, i) == SaturatingMul(SaturatingDiv(MAX_NONCE, n), i)

\* mine.rs:262-266
FormatDuration(seconds) == <<seconds \div 60, seconds % 60>>

\* timer.elapsed().as_secs()
Elapsed(i) == now - timer[i]

\* a checkpoint at every second multiple of CHECKPOINT only
IsCheckpoint_Sparse(n) == n % (2 * CHECKPOINT) = 0

\* the checkpoint test applied to the nonce after its increment
IsCheckpoint_AfterIncrement(n) == (n + 1) % CHECKPOINT = 0

\* mine.rs:138
IsCheckpoint(n) == n % CHECKPOINT = 0

\* the comparison of the local best turned around
Improves_Flipped(difficulty, best) == difficulty < best

\* mine.rs:126
Improves(difficulty, best) == difficulty > best

\* mine.rs:131
ShouldRaise(candidate, current) == candidate > current

\* the cutoff compared strictly
CutoffReached_Strict(elapsed, cutoff) == elapsed > cutoff

\* mine.rs:140
CutoffReached(elapsed, cutoff) == elapsed >= cutoff

\* the floor left out of the test: a worker stops on time alone
FloorMet_TimeOnly(global, floor) == global >= 0

\* the floor compared strictly
FloorMet_Strict(global, floor) == global > floor

\* mine.rs:147
FloorMet(global, floor) == global >= floor

\* mine.rs:140 and 147 on the current clock and global best: the condition
\* under which a checkpoint of worker i stops it
StopCondition(i) ==
    /\ CutoffReached(Elapsed(i), cutoff_time)
    /\ FloorMet(global_best_difficulty, min_difficulty)

\* the history counter overrun counts no further than this
OverrunLimit == CHECKPOINT + 1

\* A step that touches neither the shared best nor the clock commutes with
\* every step of the other workers, so only one order of such steps is
\* explored: the lowest worker at such a step moves first.
LocalPc == {"hash", "incr"}
Eager == {j \in Workers : pc[j] \in LocalPc}
Turn(i) == IF Eager = {} THEN TRUE ELSE i = SetMin(Eager)

\* where the loop goes after the hash and the update of the bests
AfterUpdate(i) == IF IsCheckpoint(nonce[i]) THEN "check" ELSE "incr"

\* mine.rs:110-116
Start(i) ==
    /\ pc[i] = "spawned"
    /\ Turn(i)
    /\ timer' = [timer EXCEPT ![i] = now]
    /\ nonce' = [nonce EXCEPT ![i] = StartNonce(cores, i)]
    /\ best_nonce' = [best_nonce EXCEPT ![i] = StartNonce(cores, i)]
    /\ best_difficulty' = [best_difficulty EXCEPT ![i] = 0]
    /\ best_hash' = [best_hash EXCEPT ![i] = DefaultHash]
    /\ pc' = [pc EXCEPT ![i] = "hash"]
    /\ UNCHANGED <<benchVars, nonce_bits, overrun, cores, cutoff_time, min_difficulty, challenge, now, seen_global,
                   scanned, global_best_difficulty, message, statusBy, joined,
                   ret_nonce, ret_difficulty, ret_hash, solution, returned>>

\* mine.rs:163.  nonce += 1 at u64::MAX panics in a build with overflow checks
\* and wraps to 0 in a build without them.
Advance(i) ==
    IF nonce[i] < MAX_NONCE
    THEN /\ nonce' = [nonce EXCEPT ![i] = @ + 1]
         /\ pc' = [pc EXCEPT ![i] = "hash"]
    ELSE \/ /\ nonce' = [nonce EXCEPT ![i] = 0]
            /\ pc' = [pc EXCEPT ![i] = "hash"]
         \/ /\ pc' = [pc EXCEPT ![i] = "panicked"]
            /\ UNCHANGED nonce

\* mine.rs:120-129, and with neither a new best nor a checkpoint the rest of
\* the iteration (mine.rs:138, 163), which touches nothing shared
HashStep(i) ==
    /\ pc[i] = "hash"
    /\ Turn(i)
    /\ LET out == HashWithMemory(challenge, ToLeBytes(nonce[i]))
       IN  /\ scanned' = [scanned EXCEPT ![i] = @ \cup {nonce[i]}]
           /\ overrun' = [overrun EXCEPT ![i] =
                             IF ~StopCondition(i) THEN 0
                             ELSE IF @ < OverrunLimit THEN @ + 1 ELSE @]
           /\ IF out.ok /\ Improves(Difficulty(out.hx), best_difficulty[i])
              THEN /\ best_nonce' = [best_nonce EXCEPT ![i] = nonce[i]]
                   /\ best_difficulty' =
                          [best_difficulty EXCEPT ![i] = Difficulty(out.hx)]
                   /\ best_hash' = [best_hash EXCEPT ![i] = out.hx]
                   /\ pc' = [pc EXCEPT ![i] = "read_global"]
                   /\ UNCHANGED nonce
              ELSE /\ UNCHANGED <<best_nonce, best_difficulty, best_hash>>
                   /\ IF IsCheckpoint(nonce[i])
                      THEN /\ pc' = [pc EXCEPT ![i] = "check"]
                           /\ UNCHANGED nonce
                      ELSE Advance(i)
    /\ UNCHANGED <<benchVars, nonce_bits, cores, cutoff_time, min_difficulty, challenge, now, timer,
                   seen_global, global_best_difficulty, message, statusBy, joined,
                   ret_nonce, ret_difficulty, ret_hash, solution, returned>>

\* mine.rs:131, the read lock is released at the end of the condition
ReadGlobal(i) ==
    /\ pc[i] = "read_global"
    /\ Turn(i)
    /\ pc' = [pc EXCEPT ![i] =
                 IF ShouldRaise(best_difficulty[i], global_best_difficulty)
                 THEN "write_global" ELSE AfterUpdate(i)]
    /\ UNCHANGED <<benchVars, nonce_bits, overrun, cores, cutoff_time, min_difficulty, challenge, now, timer, nonce,
                   best_nonce, best_difficulty, best_hash, seen_global, scanned,
                   global_best_difficulty, message, statusBy, joined, ret_nonce,
                   ret_difficulty, ret_hash, solution, returned>>

\* mine.rs:132
WriteGlobal(i) ==
    /\ pc[i] = "write_global"
    /\ Turn(i)
    /\ global_best_difficulty' = best_difficulty[i]
    /\ overrun' = [j \in AllWorkers |->
                      IF FloorMet(best_difficulty[i], min_difficulty)
                      THEN overrun[j] ELSE 0]
    /\ pc' = [pc EXCEPT ![i] = AfterUpdate(i)]
    /\ UNCHANGED <<benchVars, nonce_bits, cores, cutoff_time, min_difficulty, challenge, now, timer, nonce,
                   best_nonce, best_difficulty, best_hash, seen_global, scanned,
                   message, statusBy, joined, ret_nonce, ret_difficulty, ret_hash,
                   solution, returned>>

\* mine.rs:138-139
Checkpoint(i) ==
    /\ pc[i] = "check"
    /\ Turn(i)
    /\ seen_global' = [seen_global EXCEPT ![i] = global_best_difficulty]
    /\ pc' = [pc EXCEPT ![i] = "cutoff"]
    /\ UNCHANGED <<benchVars, nonce_bits, overrun, cores, cutoff_time, min_difficulty, challenge, now, timer, nonce,
                   best_nonce, best_difficulty, best_hash, scanned,
                   global_best_difficulty, message, statusBy, joined, ret_nonce,
                   ret_difficulty, ret_hash, solution, returned>>

\* mine.rs:140-151
Cutoff(i) ==
    /\ pc[i] = "cutoff"
    /\ Turn(i)
    /\ IF CutoffReached(Elapsed(i), cutoff_time)
       THEN /\ IF i = 0
               THEN /\ message' = <<"Mining... (difficulty)", seen_global[i]>>
                    /\ statusBy' = statusBy \cup {i}
               ELSE UNCHANGED <<message, statusBy>>
            /\ pc' = [pc EXCEPT ![i] =
                         IF FloorMet(seen_global[i], min_difficulty)
                         THEN "done" ELSE "incr"]
       ELSE /\ pc' = [pc EXCEPT ![i] = IF i = 0 THEN "status" ELSE "incr"]
            /\ UNCHANGED <<message, statusBy>>
    /\ UNCHANGED <<benchVars, nonce_bits, overrun, cores, cutoff_time, min_difficulty, challenge, now, timer, nonce,
                   best_nonce, best_difficulty, best_hash, seen_global, scanned,
                   global_best_difficulty, joined, ret_nonce, ret_difficulty,
                   ret_hash, solution, returned>>

\* mine.rs:152-158, the clock is read again for the message
Status(i) ==
    /\ pc[i] = "status"
    /\ Turn(i)
    /\ message' = <<"Mining... (difficulty, time)", seen_global[i],
                    FormatDuration(SaturatingSub(cutoff_time, Elapsed(i)))>>
    /\ statusBy' = statusBy \cup {i}
    /\ pc' = [pc EXCEPT ![i] = "incr"]
    /\ UNCHANGED <<benchVars, nonce_bits, overrun, cores, cutoff_time, min_difficulty, challenge, now, timer, nonce,
                   best_nonce, best_difficulty, best_hash, seen_global, scanned,
                   global_best_difficulty, joined, ret_nonce, ret_difficulty,
                   ret_hash, solution, returned>>

\* mine.rs:163, after a step that touched the shared best or the clock
Increment(i) ==
    /\ pc[i] = "incr"
    /\ Turn(i)
    /\ Advance(i)
    /\ UNCHANGED <<benchVars, nonce_bits, overrun, cores, cutoff_time, min_difficulty, challenge, now, timer,
                   best_nonce, best_difficulty, best_hash, seen_global, scanned,
                   global_best_difficulty, message, statusBy, joined, ret_nonce,
                   ret_difficulty, ret_hash, solution, returned>>

-----------------------------------------------------------------------------
(* find_hash_par: the join loop and the return.                            *)

\* a later result of equal difficulty replaces an earlier one
Replaces_OrEqual(difficulty, best) == difficulty >= best

\* mine.rs:179
Replaces(difficulty, best) == difficulty > best

\* the best of a worker that failed is taken as a candidate too
Join_CountsFailed ==
    /\ joined < cores
    /\ Eager = {}
    /\ pc[joined] \in {"done", "panicked"}
    /\ IF Replaces(best_difficulty[joined], ret_difficulty)
       THEN /\ ret_difficulty' = best_difficulty[joined]
            /\ ret_nonce' = best_nonce[joined]
            /\ ret_hash' = best_hash[joined]
       ELSE UNCHANGED <<ret_difficulty, ret_nonce, ret_hash>>
    /\ joined' = joined + 1
    /\ UNCHANGED <<benchVars, nonce_bits, overrun, cores, cutoff_time, min_difficulty,
                   challenge, now, pc, timer, nonce, best_nonce, best_difficulty,
                   best_hash, seen_global, scanned, global_best_difficulty,
                   message, statusBy, solution, returned>>

\* mine.rs:176-192, handles are awaited in index order; the handle of a worker
\* that panicked yields Err, which is logged only
Join ==
    /\ joined < cores
    /\ Eager = {}
    /\ pc[joined] \in {"done", "panicked"}
    /\ IF pc[joined] = "done" /\ Replaces(best_difficulty[joined], ret_difficulty)
       THEN /\ ret_difficulty' = best_difficulty[joined]
            /\ ret_nonce' = best_nonce[joined]
            /\ ret_hash' = best_hash[joined]
       ELSE UNCHANGED <<ret_difficulty, ret_nonce, ret_hash>>
    /\ joined' = joined + 1
    /\ UNCHANGED <<benchVars, nonce_bits, overrun, cores, cutoff_time, min_difficulty, challenge, now, pc, timer,
                   nonce, best_nonce, best_difficulty, best_hash, seen_global,
                   scanned, global_best_difficulty, message, statusBy, solution,
                   returned>>

\* mine.rs:195-201
Return ==
    /\ joined = cores
    /\ ~returned
    /\ message' = <<"Best hash", ret_hash.h, ret_difficulty>>
    /\ solution' = [d |-> ret_hash.d, n |-> ToLeBytes(ret_nonce)]
    /\ returned' = TRUE
    /\ UNCHANGED <<benchVars, nonce_bits, overrun, cores, cutoff_time, min_difficulty, challenge, now, pc, timer,
                   nonce, best_nonce, best_difficulty, best_hash, seen_global,
                   scanned, global_best_difficulty, statusBy, joined, ret_nonce,
                   ret_difficulty, ret_hash>>

\* one second passes
Tick ==
    /\ now < MaxTime
    /\ Eager = {}
    /\ ~returned
    /\ (\E i \in Workers : pc[i] = "spawned") => now < MaxStartDelay
    /\ now' = now + 1
    /\ UNCHANGED <<benchVars, nonce_bits, overrun, cores, cutoff_time, min_difficulty, challenge, pc, timer, nonce,
                   best_nonce, best_difficulty, best_hash, seen_global, scanned,
                   global_best_difficulty, message, statusBy, joined, ret_nonce,
                   ret_difficulty, ret_hash, solution, returned>>

\* the benchmark and the partition table, not running
BenchIdle ==
    /\ threads = 0
    /\ main_timer = 0
    /\ hash_count = <<>>
    /\ total_hashes = 0
    /\ hash_lock = {}
    /\ diff = [i \in AllWorkers |-> 0]
    /\ loaded = [i \in AllWorkers |-> 0]
    /\ reports = <<>>
    /\ bench_done = FALSE
    /\ part = <<>>

\* no worker has run
WorkersIdle ==
    /\ timer = [i \in AllWorkers |-> 0]
    /\ nonce = [i \in AllWorkers |-> 0]
    /\ best_nonce = [i \in AllWorkers |-> 0]
    /\ best_difficulty = [i \in AllWorkers |-> 0]
    /\ best_hash = [i \in AllWorkers |-> DefaultHash]
    /\ seen_global = [i \in AllWorkers |-> 0]
    /\ scanned = [i \in AllWorkers |-> {}]
    /\ overrun = [i \in AllWorkers |-> 0]

\* mine.rs:99-101 and 173-175
SearchFresh ==
    /\ global_best_difficulty = 0
    /\ message = <<"Mining...">>
    /\ statusBy = {}
    /\ joined = 0
    /\ ret_nonce = 0
    /\ ret_difficulty = 0
    /\ ret_hash = DefaultHash
    /\ solution = [d |-> 0, n |-> <<>>]
    /\ returned = FALSE

\* a call of find_hash_par, mine.rs:92-103
Init ==
    /\ nonce_bits = NonceBits
    /\ BenchIdle
    /\ cores \in 1 .. MaxCores
    /\ cutoff_time \in 0 .. MaxCutoff
    /\ min_difficulty \in 0 .. MaxMinDifficulty
    /\ challenge \in 0 .. MaxChallenge
    /\ now = 0
    /\ pc = [i \in AllWorkers |-> IF i < cores THEN "spawned" ELSE "none"]
    /\ WorkersIdle
    /\ SearchFresh

Worker(i) ==
    \/ Start(i)
    \/ HashStep(i)
    \/ ReadGlobal(i)
    \/ WriteGlobal(i)
    \/ Checkpoint(i)
    \/ Cutoff(i)
    \/ Status(i)
    \/ Increment(i)

Next ==
    \/ \E i \in Workers : Start(i)
    \/ \E i \in Workers : HashStep(i)
    \/ \E i \in Workers : ReadGlobal(i)
    \/ \E i \in Workers : WriteGlobal(i)
    \/ \E i \in Workers : Checkpoint(i)
    \/ \E i \in Workers : Cutoff(i)
    \/ \E i \in Workers : Status(i)
    \/ \E i \in Workers : Increment(i)
    \/ Join
    \/ Return
    \/ Tick

Spec == Init /\ [][Next]_vars

\* Sessions with min_difficulty = 0, in which the clock advances and every
\* thread is scheduled.  A step of one thread is disabled while another worker
\* is at a local step (see Turn), hence the strong fairness.
ZeroFloorInit == Init /\ min_difficulty = 0

ZeroFloorSpec ==
    /\ ZeroFloorInit
    /\ [][Next]_vars
    /\ SF_vars(Tick)
    /\ \A i \in AllWorkers : SF_vars(Worker(i))
    /\ SF_vars(Join)
    /\ SF_vars(Return)

-----------------------------------------------------------------------------
(* The benchmark, drillx/examples/example-2/src/main.rs.                   *)

BENCH_DURATION == 55        \* main.rs:60
PRINT_INTERVAL == 1000      \* main.rs:51

MaxBenchIters == 2          \* hashes of a worker before the duration is over
MaxBenchBusy == 1           \* and the seconds within which it starts and hashes

BenchMaxTime == MaxBenchBusy + BENCH_DURATION

BenchWorkers == 0 .. (threads - 1)

\* the author of the final line, which no worker prints
MAIN == -1

\* u64 multiplication: it overflows when the product exceeds u64::MAX, and
\* then wraps in a build without overflow checks
MulOverflows(a, b) == a * b > MAX_NONCE
WrappingMul(a, b) == (a * b) % (MAX_NONCE + 1)

\* main.rs:29
FirstNonce(n, i) == WrappingMul(MAX_NONCE \div n, i)

\* main.rs:47  *hash_count.entry(diff).or_insert(0) += 1
CountIn(counts, d) ==
    IF d \in DOMAIN counts THEN [counts EXCEPT ![d] = @ + 1]
                            ELSE (d :> 1) @@ counts

\* the loop of print over 0..max_key, the last key left out
PrintLine_ExclusiveRange(hash_counts, total, elapsed) ==
    LET max_key == IF DOMAIN hash_counts = {} THEN 0
                                             ELSE SetMax(DOMAIN hash_counts)
    IN  [elapsed |-> elapsed,
         average |-> IF elapsed > 0 THEN total \div elapsed ELSE 0,
         buckets |-> [k \in 1 .. max_key |->
                        <<k - 1, IF (k - 1) \in DOMAIN hash_counts
                                 THEN hash_counts[k - 1] ELSE 0>>]]

\* main.rs:70-84, the line printed: the elapsed seconds, the average, and one
\* <<key, count>> per key of 0..=max_key
PrintLine(hash_counts, total, elapsed) ==
    LET max_key == IF DOMAIN hash_counts = {} THEN 0
                                             ELSE SetMax(DOMAIN hash_counts)
    IN  [elapsed |-> elapsed,
         average |-> IF elapsed > 0 THEN total \div elapsed ELSE 0,
         buckets |-> [k \in 1 .. (max_key + 1) |->
                        <<k - 1, IF (k - 1) \in DOMAIN hash_counts
                                 THEN hash_counts[k - 1] ELSE 0>>]]

\* main.rs:27-33.  The multiplication at main.rs:29 panics on overflow in a
\* build with overflow checks.
BenchStart(i) ==
    /\ pc[i] = "spawned"
    /\ IF MulOverflows(MAX_NONCE \div threads, i)
       THEN \/ /\ nonce' = [nonce EXCEPT ![i] = FirstNonce(threads, i)]
               /\ timer' = [timer EXCEPT ![i] = now]
               /\ pc' = [pc EXCEPT ![i] = "hash"]
            \/ /\ pc' = [pc EXCEPT ![i] = "panicked"]
               /\ UNCHANGED <<nonce, timer>>
       ELSE /\ nonce' = [nonce EXCEPT ![i] = FirstNonce(threads, i)]
            /\ timer' = [timer EXCEPT ![i] = now]
            /\ pc' = [pc EXCEPT ![i] = "hash"]
    /\ UNCHANGED <<searchVars, challenge, now, scanned, threads, main_timer,
                   hash_count, total_hashes, hash_lock, diff, loaded, reports,
                   bench_done, part>>

\* main.rs:37-39
BenchHash(i) ==
    /\ pc[i] = "hash"
    /\ LET out == HashWithMemory(challenge, ToLeBytes(nonce[i]))
       IN  /\ scanned' = [scanned EXCEPT ![i] = @ \cup {nonce[i]}]
           /\ IF out.ok
              THEN /\ diff' = [diff EXCEPT ![i] = Difficulty(out.hx)]
                   /\ pc' = [pc EXCEPT ![i] = "count"]
              ELSE /\ pc' = [pc EXCEPT ![i] = "incr"]
                   /\ UNCHANGED diff
    /\ UNCHANGED <<searchVars, challenge, now, timer, nonce, threads, main_timer,
                   hash_count, total_hashes, hash_lock, loaded, reports,
                   bench_done, part>>

\* main.rs:42
BenchCount(i) ==
    /\ pc[i] = "count"
    /\ total_hashes' = total_hashes + 1
    /\ pc' = [pc EXCEPT ![i] = "bucket"]
    /\ UNCHANGED <<searchVars, challenge, now, timer, nonce, scanned, threads,
                   main_timer, hash_count, hash_lock, diff, loaded, reports,
                   bench_done, part>>

\* main.rs:45-51, the mutex is taken and released within the block
BenchBucket(i) ==
    /\ pc[i] = "bucket"
    /\ hash_lock = {}
    /\ hash_count' = CountIn(hash_count, diff[i])
    /\ pc' = [pc EXCEPT ![i] =
                 IF nonce[i] % PRINT_INTERVAL = 0 THEN "print" ELSE "incr"]
    /\ UNCHANGED <<searchVars, challenge, now, timer, nonce, scanned, threads,
                   main_timer, total_hashes, hash_lock, diff, loaded, reports,
                   bench_done, part>>

\* main.rs:52, the arguments of print: the mutex is taken, then the total is
\* loaded
BenchPrintLock(i) ==
    /\ pc[i] = "print"
    /\ hash_lock = {}
    /\ hash_lock' = {i}
    /\ loaded' = [loaded EXCEPT ![i] = total_hashes]
    /\ pc' = [pc EXCEPT ![i] = "printing"]
    /\ UNCHANGED <<searchVars, challenge, now, timer, nonce, scanned, threads,
                   main_timer, hash_count, total_hashes, diff, reports,
                   bench_done, part>>

\* main.rs:52, print runs with the mutex held, which is released after it
BenchPrint(i) ==
    /\ pc[i] = "printing"
    /\ reports' = Append(reports,
                     [by |-> i, total |-> loaded[i],
                      line |-> PrintLine(hash_count, loaded[i], now - main_timer)])
    /\ hash_lock' = {}
    /\ pc' = [pc EXCEPT ![i] = "incr"]
    /\ UNCHANGED <<searchVars, challenge, now, timer, nonce, scanned, threads,
                   main_timer, hash_count, total_hashes, diff, loaded,
                   bench_done, part>>

\* main.rs:57, see Advance
BenchIncrement(i) ==
    /\ pc[i] = "incr"
    /\ IF nonce[i] < MAX_NONCE
       THEN /\ nonce' = [nonce EXCEPT ![i] = @ + 1]
            /\ pc' = [pc EXCEPT ![i] = "time"]
       ELSE \/ /\ nonce' = [nonce EXCEPT ![i] = 0]
               /\ pc' = [pc EXCEPT ![i] = "time"]
            \/ /\ pc' = [pc EXCEPT ![i] = "panicked"]
               /\ UNCHANGED nonce
    /\ UNCHANGED <<searchVars, challenge, now, timer, scanned, threads, main_timer,
                   hash_count, total_hashes, hash_lock, diff, loaded, reports,
                   bench_done, part>>

\* the duration taken as over one second early
DurationOver_Early(elapsed) == elapsed + 1 >= BENCH_DURATION

\* main.rs:60
DurationOver(elapsed) == elapsed >= BENCH_DURATION

\* the nonce of the iteration that main.rs:57 has just ended
IterationNonce(i) == IF nonce[i] = 0 THEN MAX_NONCE ELSE nonce[i] - 1

\* the duration tested at the iterations that may print only
BenchTime_AtPrintInterval(i) ==
    /\ pc[i] = "time"
    /\ IF IterationNonce(i) % PRINT_INTERVAL = 0 /\ DurationOver(now - timer[i])
       THEN pc' = [pc EXCEPT ![i] = "done"]
       ELSE /\ \/ IterationNonce(i) % PRINT_INTERVAL # 0
               \/ Cardinality(scanned[i]) < MaxBenchIters
            /\ pc' = [pc EXCEPT ![i] = "hash"]
    /\ UNCHANGED <<searchVars, challenge, now, timer, nonce, scanned, threads,
                   main_timer, hash_count, total_hashes, hash_lock, diff, loaded,
                   reports, bench_done, part>>

\* main.rs:60-62.  A worker that has hashed MaxBenchIters nonces goes on only
\* once its duration is over.
BenchTime(i) ==
    /\ pc[i] = "time"
    /\ IF DurationOver(now - timer[i])
       THEN pc' = [pc EXCEPT ![i] = "done"]
       ELSE /\ Cardinality(scanned[i]) < MaxBenchIters
            /\ pc' = [pc EXCEPT ![i] = "hash"]
    /\ UNCHANGED <<searchVars, challenge, now, timer, nonce, scanned, threads,
                   main_timer, hash_count, total_hashes, hash_lock, diff, loaded,
                   reports, bench_done, part>>

\* main.rs:64-67, once for_each has returned.  (A panic of a worker is
\* propagated by for_each, and the final line is then not printed.)
BenchFinal ==
    /\ \A i \in BenchWorkers : pc[i] = "done"
    /\ ~bench_done
    /\ hash_lock = {}
    /\ reports' = Append(reports,
                     [by |-> MAIN, total |-> total_hashes,
                      line |-> PrintLine(hash_count, total_hashes, now - main_timer)])
    /\ bench_done' = TRUE
    /\ UNCHANGED <<searchVars, challenge, now, pc, timer, nonce, scanned, threads,
                   main_timer, hash_count, total_hashes, hash_lock, diff, loaded,
                   part>>

\* a worker that has done its MaxBenchIters hashes, or has ended
Waiting(i) ==
    \/ pc[i] \in {"done", "panicked"}
    \/ pc[i] = "time" /\ Cardinality(scanned[i]) >= MaxBenchIters

\* one second passes; the workers start and do their hashes within the first
\* MaxBenchBusy seconds
BenchTick ==
    /\ now < BenchMaxTime
    /\ ~bench_done
    /\ now < MaxBenchBusy \/ \A i \in BenchWorkers : Waiting(i)
    /\ now' = now + 1
    /\ UNCHANGED <<searchVars, challenge, pc, timer, nonce, scanned, threads,
                   main_timer, hash_count, total_hashes, hash_lock, diff, loaded,
                   reports, bench_done, part>>

\* find_hash_par is not running
SearchIdle ==
    /\ cores = 0
    /\ cutoff_time = 0
    /\ min_difficulty = 0
    /\ SearchFresh

\* main.rs:7-24
BenchInit ==
    /\ nonce_bits = NonceBits
    /\ SearchIdle
    /\ WorkersIdle
    /\ threads \in 1 .. MaxCores
    /\ challenge \in 0 .. MaxChallenge
    /\ now = 0
    /\ main_timer = 0
    /\ pc = [i \in AllWorkers |-> IF i < threads THEN "spawned" ELSE "none"]
    /\ hash_count = <<>>
    /\ total_hashes = 0
    /\ hash_lock = {}
    /\ diff = [i \in AllWorkers |-> 0]
    /\ loaded = [i \in AllWorkers |-> 0]
    /\ reports = <<>>
    /\ bench_done = FALSE
    /\ part = <<>>

BenchNext ==
    \/ \E i \in BenchWorkers : BenchStart(i)
    \/ \E i \in BenchWorkers : BenchHash(i)
    \/ \E i \in BenchWorkers : BenchCount(i)
    \/ \E i \in BenchWorkers : BenchBucket(i)
    \/ \E i \in BenchWorkers : BenchPrintLock(i)
    \/ \E i \in BenchWorkers : BenchPrint(i)
    \/ \E i \in BenchWorkers : BenchIncrement(i)
    \/ \E i \in BenchWorkers : BenchTime(i)
    \/ BenchFinal
    \/ BenchTick

BenchSpec == BenchInit /\ [][BenchNext]_vars

BenchWorker(i) ==
    \/ BenchStart(i)
    \/ BenchHash(i)
    \/ BenchCount(i)
    \/ BenchBucket(i)
    \/ BenchPrintLock(i)
    \/ BenchPrint(i)
    \/ BenchIncrement(i)
    \/ BenchTime(i)

\* The benchmark in which the clock advances and every thread is scheduled.
\* A worker waits while another holds the mutex of hash_count, hence the
\* strong fairness.
BenchLiveSpec ==
    /\ BenchInit
    /\ [][BenchNext]_vars
    /\ WF_vars(BenchTick)
    /\ \A i \in AllWorkers : SF_vars(BenchWorker(i))
    /\ WF_vars(BenchFinal)

-----------------------------------------------------------------------------
(* The benchmark with a nonce wide enough for a multiple of PRINT_INTERVAL   *)
(* to lie ahead of the first nonce of a worker other than worker 0.  The     *)
(* workers start at different instants (no barrier): the last worker has     *)
(* run alone from its first nonce up to that multiple, the others have not   *)
(* started.                                                                  *)

StatusNonceBits == 16   \* width of the nonce in StatusSpec

\* the iterations of worker i before the first one that may print, main.rs:51
Lead(n, i) ==
    (PRINT_INTERVAL - (FirstNonce(n, i) % PRINT_INTERVAL)) % PRINT_INTERVAL

\* the nonces of S whose hash succeeds, main.rs:37-38
Hashed(S) == {m \in S : HashWithMemory(challenge, ToLeBytes(m)).ok}

\* the difficulty of the hash of nonce m, main.rs:39
DiffOf(m) == Difficulty(HashWithMemory(challenge, ToLeBytes(m)).hx)

\* hash_count after the nonces of S have been hashed, main.rs:45-48
HistogramOf(S) ==
    [d \in {DiffOf(m) : m \in Hashed(S)} |->
        Cardinality({m \in Hashed(S) : DiffOf(m) = d})]

\* main.rs:27-63 for worker w alone, from its first nonce up to the first
\* iteration that may print
StatusInit ==
    /\ nonce_bits = StatusNonceBits
    /\ SearchIdle
    /\ threads \in 2 .. MaxCores
    /\ challenge \in 0 .. MaxChallenge
    /\ now = 0
    /\ main_timer = 0
    /\ LET w == threads - 1
           first == FirstNonce(threads, w)
           ran == first .. (first + Lead(threads, w) - 1)
       IN  /\ pc = [i \in AllWorkers |->
                      IF i = w THEN "hash"
                      ELSE IF i < threads THEN "spawned" ELSE "none"]
           /\ nonce = [i \in AllWorkers |->
                         IF i = w THEN first + Lead(threads, w) ELSE 0]
           /\ scanned = [i \in AllWorkers |-> IF i = w THEN ran ELSE {}]
           /\ total_hashes = Cardinality(Hashed(ran))
           /\ hash_count = HistogramOf(ran)
           /\ diff = [i \in AllWorkers |->
                        IF i = w /\ Hashed(ran) # {}
                        THEN DiffOf(SetMax(Hashed(ran))) ELSE 0]
    /\ timer = [i \in AllWorkers |-> 0]
    /\ best_nonce = [i \in AllWorkers |-> 0]
    /\ best_difficulty = [i \in AllWorkers |-> 0]
    /\ best_hash = [i \in AllWorkers |-> DefaultHash]
    /\ seen_global = [i \in AllWorkers |-> 0]
    /\ overrun = [i \in AllWorkers |-> 0]
    /\ hash_lock = {}
    /\ loaded = [i \in AllWorkers |-> 0]
    /\ reports = <<>>
    /\ bench_done = FALSE
    /\ part = <<>>

StatusSpec == StatusInit /\ [][BenchNext]_vars

\* Either program: a call of find_hash_par, or a run of the benchmark.
ModesInit == Init \/ BenchInit

\* the steps of Next in a call of find_hash_par (cores > 0, no benchmark
\* worker), those of BenchNext in a run of the benchmark (threads > 0, no
\* search worker)
ModesNext ==
    \/ \E i \in Workers : Start(i)
    \/ \E i \in Workers : HashStep(i)
    \/ \E i \in Workers : ReadGlobal(i)
    \/ \E i \in Workers : WriteGlobal(i)
    \/ \E i \in Workers : Checkpoint(i)
    \/ \E i \in Workers : Cutoff(i)
    \/ \E i \in Workers : Status(i)
    \/ \E i \in Workers : Increment(i)
    \/ cores > 0 /\ Join
    \/ cores > 0 /\ Return
    \/ cores > 0 /\ Tick
    \/ \E i \in BenchWorkers : BenchStart(i)
    \/ \E i \in BenchWorkers : BenchHash(i)
    \/ \E i \in BenchWorkers : BenchCount(i)
    \/ \E i \in BenchWorkers : BenchBucket(i)
    \/ \E i \in BenchWorkers : BenchPrintLock(i)
    \/ \E i \in BenchWorkers : BenchPrint(i)
    \/ \E i \in BenchWorkers : BenchIncrement(i)
    \/ \E i \in BenchWorkers : BenchTime(i)
    \/ threads > 0 /\ BenchFinal
    \/ threads > 0 /\ BenchTick

ModesSpec == ModesInit /\ [][ModesNext]_vars

-----------------------------------------------------------------------------
(* print applied to a histogram, a total and an elapsed time.  With no     *)
(* worker (threads = 0) main goes straight to its final print.             *)

MaxPrintKey == 3        \* difficulties 0..MaxPrintKey
MaxPrintCount == 2      \* counts 1..MaxPrintCount of the keys present
MaxPrintTotal == 5      \* totals 0..MaxPrintTotal
MaxPrintElapsed == 3    \* elapsed seconds 0..MaxPrintElapsed

Histograms ==
    UNION {[S -> 1 .. MaxPrintCount] : S \in SUBSET (0 .. MaxPrintKey)}

PrintInit ==
    /\ nonce_bits = NonceBits
    /\ SearchIdle
    /\ WorkersIdle
    /\ threads = 0
    /\ challenge = 0
    /\ pc = [i \in AllWorkers |-> "none"]
    /\ main_timer = 0
    /\ now \in 0 .. MaxPrintElapsed
    /\ hash_count \in Histograms
    /\ total_hashes \in 0 .. MaxPrintTotal
    /\ hash_lock = {}
    /\ diff = [i \in AllWorkers |-> 0]
    /\ loaded = [i \in AllWorkers |-> 0]
    /\ reports = <<>>
    /\ bench_done = FALSE
    /\ part = <<>>

PrintNext == BenchFinal

PrintSpec == PrintInit /\ [][PrintNext]_vars

-----------------------------------------------------------------------------
(* The start nonces of the workers 0..n-1, as find_hash_par and as the     *)
(* benchmark compute them.                                                 *)

MaxPartCores == 127     \* worker counts 1..MaxPartCores, at most MAX_NONCE

\* cores is a u64, so it is at most u64::MAX
PartCores == {n \in 1 .. MaxPartCores : n <= MAX_NONCE}

PartInit ==
    /\ nonce_bits = NonceBits
    /\ BenchIdle
    /\ SearchFresh
    /\ WorkersIdle
    /\ cores \in PartCores
    /\ cutoff_time = 0
    /\ min_difficulty = 0
    /\ challenge = 0
    /\ now = 0
    /\ pc = [i \in AllWorkers |-> "none"]

\* mine.rs:113 and main.rs:29 for the next worker index
PartitionStep ==
    /\ Len(part) < cores
    /\ LET i == Len(part)
       IN  part' = Append(part,
                     [search |-> StartNonce(cores, i),
                      bench |-> FirstNonce(cores, i),
                      overflow |-> MulOverflows(MAX_NONCE \div cores, i)])
    /\ UNCHANGED <<mineVars, threads, main_timer, hash_count, total_hashes,
                   hash_lock, diff, loaded, reports, bench_done>>

PartNext == PartitionStep

PartSpec == PartInit /\ [][PartNext]_vars

-----------------------------------------------------------------------------
(* Properties of the benchmark, of print and of the start nonces.          *)

RECURSIVE SumCounts(_)
SumCounts(buckets) ==
    IF buckets = <<>> THEN 0 ELSE Head(buckets)[2] + SumCounts(Tail(buckets))

\* C8: in every line printed, by a worker while the workers run or by main at
\* the end, the total that is reported equals the sum of the bucket counts
\* that are reported.
C8_HistogramConsistent ==
    \A k \in 1 .. Len(reports) :
        reports[k].total = SumCounts(reports[k].line.buckets)

\* C9: the line printed has average total / elapsed rounded down, 0 for
\* elapsed = 0, and lists the keys 0..max_observed_key in increasing order
\* with their counts, 0 for a key never observed; max_observed_key is 0 for
\* the empty histogram.
C9_ReportContents ==
    \A k \in 1 .. Len(reports) :
        LET line == reports[k].line
            e == now - main_timer
            top == IF DOMAIN hash_count = {} THEN 0 ELSE SetMax(DOMAIN hash_count)
        IN  /\ line.elapsed = e
            /\ e = 0 => line.average = 0
            /\ e > 0 => /\ line.average * e <= total_hashes
                        /\ total_hashes < (line.average + 1) * e
            /\ Len(line.buckets) = top + 1
            /\ \A key \in 0 .. top :
                  /\ line.buckets[key + 1][1] = key
                  /\ key \in DOMAIN hash_count =>
                        line.buckets[key + 1][2] = hash_count[key]
                  /\ key \notin DOMAIN hash_count =>
                        line.buckets[key + 1][2] = 0

C9_Witness ==
    /\ Len(reports) = 1
    /\ DOMAIN hash_count = {0, 3}
    /\ now - main_timer = 2
    /\ total_hashes = 5

\* C10: for a worker count W and every index i < W, the start nonce of
\* find_hash_par and that of the benchmark are both floor(MAX_NONCE / W) * i,
\* the product does not overflow, and the start nonces increase strictly
\* with i.
C10_Partition ==
    \A k \in 1 .. Len(part) :
        /\ part[k].search = (MAX_NONCE \div cores) * (k - 1)
        /\ part[k].bench = part[k].search
        /\ ~part[k].overflow
        /\ part[k].search <= MAX_NONCE
        /\ \A j \in 1 .. (k - 1) : part[j].search < part[k].search

C10_Witness ==
    /\ cores = 3
    /\ Len(part) = 3
    /\ part[3].search = 84

-----------------------------------------------------------------------------
(* Properties of the bounded search.                                       *)

\* the outcome of hashing each nonce under each challenge
Outcomes ==
    [c \in 0 .. MaxChallenge |->
        [n \in 0 .. (2 ^ NonceBits - 1) |-> HashWithMemory(c, ToLeBytes(n))]]

\* the outcome of hashing nonce n in this session
Outcome(n) == Outcomes[challenge][n]

\* the difficulties of the successful hashes among the nonces of S
Difficulties(S) == {Difficulty(Outcome(n).hx) : n \in {m \in S : Outcome(m).ok}}

AllScanned == UNION {scanned[i] : i \in Workers}

AllNormal == \A i \in Workers : pc[i] = "done"

\* C1: each worker's best difficulty is the maximum of the difficulties it
\* has hashed so far (0 if none), and when the search returns with every
\* worker having returned normally, the returned difficulty is the maximum
\* over all hashes of all workers, and, if that is above 0, the returned nonce
\* and digest are those of a nonce some worker hashed to that difficulty.
C1_ReturnsMaximum ==
    /\ \A i \in Workers :
          best_difficulty[i] = SetMax(Difficulties(scanned[i]) \cup {0})
    /\ (returned /\ AllNormal) =>
          /\ ret_difficulty = SetMax(Difficulties(AllScanned) \cup {0})
          /\ ret_difficulty > 0 =>
                \E n \in AllScanned :
                    /\ Outcome(n).ok
                    /\ Difficulty(Outcome(n).hx) = ret_difficulty
                    /\ solution = [d |-> Outcome(n).hx.d, n |-> ToLeBytes(n)]

C1_Witness ==
    /\ returned /\ AllNormal /\ cores = 2
    /\ best_difficulty[0] < best_difficulty[1]
    /\ ret_difficulty = 2

\* C2: no step makes the shared global best difficulty smaller.
C2_GlobalBestMonotonic ==
    [][global_best_difficulty' >= global_best_difficulty]_vars

\* C3: whenever no worker is in the middle of raising the global best (between
\* its read at mine.rs:131 and the end of its write at mine.rs:132), the global
\* best is the maximum of the values the workers have tried to raise it to,
\* which are their local bests.
C3_NoLostUpdate ==
    (\A i \in Workers : pc[i] \notin {"read_global", "write_global"}) =>
        global_best_difficulty = SetMax({best_difficulty[i] : i \in Workers} \cup {0})

\* C4: a worker leaves a checkpoint stopped exactly when its elapsed time has
\* reached the cutoff and the global best it read is at least min_difficulty;
\* it stops nowhere else, so a stopped worker read a global best of at least
\* min_difficulty and its elapsed time is at least the cutoff.
C4_CutoffPolicy ==
    /\ [][\A i \in Workers :
            /\ (pc[i] = "cutoff" /\ pc'[i] # "cutoff") =>
                  ((pc'[i] = "done") <=>
                      (Elapsed(i) >= cutoff_time /\ seen_global[i] >= min_difficulty))
            /\ (pc'[i] = "done" /\ pc[i] # "done") => pc[i] = "cutoff"]_vars
    /\ [](\A i \in Workers :
            pc[i] = "done" =>
                (seen_global[i] >= min_difficulty /\ Elapsed(i) >= cutoff_time))

C4_Witness ==
    \E i \in Workers :
        /\ pc[i] = "done" /\ min_difficulty = 2 /\ cutoff_time = 1
        /\ scanned[i] # {nonce[i]}

\* C5: with min_difficulty = 0 the search returns (the clock advancing and
\* the threads being scheduled); a worker that evaluates a checkpoint with its
\* elapsed time at or past the cutoff stops there; and a search in which no
\* hash succeeded returns difficulty 0, the default hash and nonce 0.
C5_ZeroFloorTerminates ==
    /\ (min_difficulty = 0) => <>returned
    /\ [][min_difficulty = 0 =>
            \A i \in Workers :
                (pc[i] = "cutoff" /\ pc'[i] # "cutoff" /\ Elapsed(i) >= cutoff_time)
                    => pc'[i] = "done"]_vars
    /\ []((returned /\ Difficulties(AllScanned) = {}) =>
            /\ ret_difficulty = 0
            /\ ret_hash = DefaultHash
            /\ solution = [d |-> DefaultHash.d, n |-> ToLeBytes(0)])

C5_Witness ==
    /\ returned /\ AllNormal /\ min_difficulty = 0 /\ cores = 2 /\ cutoff_time = 1
    /\ challenge = 0
    /\ AllScanned # {}

\* C6: with one worker, cutoff 0 and min_difficulty 0, the worker hashes
\* nonce 0 and nothing else, stops at that first iteration, and the search
\* returns nonce 0.
C6_FirstCheckpointStops ==
    /\ []((cores = 1 /\ cutoff_time = 0 /\ min_difficulty = 0) =>
            /\ scanned[0] \subseteq {0}
            /\ nonce[0] = 0
            /\ pc[0] \notin {"incr", "status", "panicked"}
            /\ pc[0] = "done" => scanned[0] = {0}
            /\ returned => (pc[0] = "done" /\ FromLeBytes(solution.n) = 0
                               /\ Len(solution.n) = NONCE_BYTES))
    /\ [][(cores = 1 /\ cutoff_time = 0 /\ min_difficulty = 0 /\ pc'[0] = "hash")
            => pc[0] \in {"spawned", "hash"}]_vars

C6_Witness ==
    /\ returned /\ cores = 1 /\ cutoff_time = 0 /\ min_difficulty = 0
    /\ challenge = 1

\* the workers joined so far that returned normally
JoinedDone == {i \in Workers : i < joined /\ pc[i] = "done"}

\* C7: after each join the result held is that of the first worker, in join
\* order, among those joined whose difficulty is the maximum (when that is
\* above 0); a later result of equal difficulty does not replace it.
C7_FirstMaximumWins ==
    LET top == SetMax({best_difficulty[i] : i \in JoinedDone} \cup {0})
    IN  /\ ret_difficulty = top
        /\ top > 0 =>
              LET first == SetMin({i \in JoinedDone : best_difficulty[i] = top})
              IN  /\ ret_nonce = best_nonce[first]
                  /\ ret_hash = best_hash[first]
                  /\ returned => solution = [d |-> best_hash[first].d,
                                             n |-> ToLeBytes(best_nonce[first])]

C7_Witness ==
    /\ returned /\ cores = 2 /\ AllNormal
    /\ best_difficulty[0] = 2 /\ best_difficulty[1] = 2
    /\ best_nonce[0] # best_nonce[1]

\* the workers that returned normally
Normal == {i \in Workers : pc[i] = "done"}

\* C11: when the search returns, every worker has ended, normally or not; a
\* worker that ended normally beside one that failed was stopped by its own
\* checkpoint; and the result is the maximum over the workers that ended
\* normally, a worker that failed contributing nothing: difficulty 0, nonce 0
\* and the default hash if none of them found a difficulty above 0.
C11_FailedWorkerIsolated ==
    returned =>
        /\ joined = cores
        /\ \A i \in Workers : pc[i] \in {"done", "panicked"}
        /\ \A i \in Normal :
              seen_global[i] >= min_difficulty /\ Elapsed(i) >= cutoff_time
        /\ LET top == SetMax({best_difficulty[i] : i \in Normal} \cup {0})
           IN  /\ ret_difficulty = top
               /\ top > 0 =>
                     \E i \in Normal :
                         /\ best_difficulty[i] = top
                         /\ ret_nonce = best_nonce[i]
                         /\ ret_hash = best_hash[i]
                         /\ solution = [d |-> best_hash[i].d,
                                        n |-> ToLeBytes(best_nonce[i])]
               /\ top = 0 =>
                     /\ ret_nonce = 0
                     /\ ret_hash = DefaultHash
                     /\ solution = [d |-> DefaultHash.d, n |-> ToLeBytes(0)]

C11_Witness ==
    /\ returned /\ cores = 2
    /\ pc[1] = "panicked" /\ pc[0] = "done"
    /\ best_difficulty[1] > best_difficulty[0]
    /\ ret_difficulty = best_difficulty[0]

\* C12: a worker of the benchmark leaves its duration test stopped exactly
\* when the time elapsed since its own start has reached BENCH_DURATION,
\* whatever it hashed and whatever the other workers do, and it stops nowhere
\* else; with the clock advancing and the threads scheduled, every worker
\* stops and main prints the final line.
C12_FixedDurationStops ==
    /\ [][\A i \in BenchWorkers :
            /\ (pc[i] = "time" /\ pc'[i] # "time") =>
                  ((pc'[i] = "done") <=> (now - timer[i] >= BENCH_DURATION))
            /\ (pc'[i] = "done" /\ pc[i] # "done") => pc[i] = "time"]_vars
    /\ [](\A i \in BenchWorkers :
            pc[i] = "done" => now - timer[i] >= BENCH_DURATION)
    /\ <>(bench_done /\ \A i \in BenchWorkers : pc[i] = "done")

C12_Witness ==
    /\ bench_done /\ threads = 2
    /\ timer[0] # timer[1]
    /\ \A i \in BenchWorkers : pc[i] = "done"
    /\ reports[Len(reports)].by = MAIN

\* a worker is between its read of the global best at mine.rs:131 and the
\* end of its write at mine.rs:132
Raising(i) == pc[i] \in {"read_global", "write_global"}

\* C13: once a worker has computed a hash of difficulty at least
\* min_difficulty and has finished its attempt to raise the global best, and
\* no attempt is in progress, the global best is at least min_difficulty; with
\* no further improving hash it stays so, and each worker that evaluates a
\* checkpoint with its elapsed time at or past the cutoff stops there.
C13_FloorMetStops ==
    /\ []((/\ \E j \in Workers :
                 /\ Difficulties(scanned[j]) # {}
                 /\ best_difficulty[j] >= min_difficulty
                 /\ ~Raising(j)
            /\ \A k \in Workers : ~Raising(k))
              => global_best_difficulty >= min_difficulty)
    /\ [][\A i \in Workers :
            (/\ pc[i] = "cutoff" /\ pc'[i] # "cutoff"
             /\ Elapsed(i) >= cutoff_time
             /\ seen_global[i] >= min_difficulty) => pc'[i] = "done"]_vars

\* C14: the global best is 0 or the difficulty of a hash that some worker
\* computed and recorded as its local best, which is not below it since; so
\* when the search returns with every worker having returned normally, the
\* returned difficulty is at least min_difficulty.
C14_ReturnMeetsFloor ==
    /\ \/ global_best_difficulty = 0
       \/ \E i \in Workers :
              /\ global_best_difficulty \in Difficulties(scanned[i])
              /\ global_best_difficulty <= best_difficulty[i]
    /\ \A i \in Workers :
          pc[i] = "done" =>
              \E j \in Workers : best_difficulty[j] >= min_difficulty
    /\ (returned /\ cores >= 1 /\ AllNormal) => ret_difficulty >= min_difficulty

C14_Witness ==
    /\ returned /\ AllNormal /\ cores = 2
    /\ min_difficulty = 2
    /\ best_difficulty[0] < min_difficulty
    /\ ret_difficulty = 2

\* C15, as claimed: a worker stops at a checkpoint of its own only, and it has
\* computed at most CHECKPOINT - 1 hashes since the stop condition (elapsed
\* time at or past the cutoff and global best at least min_difficulty) became
\* true and stayed true.
C15_OverrunBelowInterval ==
    \A i \in Workers :
        /\ pc[i] = "done" => IsCheckpoint(nonce[i])
        /\ overrun[i] <= CHECKPOINT - 1

\* C15, amended: a worker stops at a checkpoint of its own only, and it has
\* computed at most CHECKPOINT hashes since the stop condition became true and
\* stayed true: the hashes of the nonces after one checkpoint up to and
\* including the next, whose hash precedes the test.
C15_OverrunWithinInterval ==
    \A i \in Workers :
        /\ pc[i] = "done" => IsCheckpoint(nonce[i])
        /\ overrun[i] <= CHECKPOINT

C15_Witness ==
    \E i \in Workers :
        /\ pc[i] = "done"
        /\ overrun[i] = CHECKPOINT
        /\ nonce[i] = CHECKPOINT

C17_OnlyWorkerZeroReports ==
    /\ statusBy \subseteq {0}
    /\ \A k \in 1 .. Len(reports) : reports[k].by \in {0, MAIN}

\* a worker is in its loop
Running(i) ==
    pc[i] \in {"hash", "read_global", "write_global", "check", "cutoff",
               "status", "incr"}

\* C18: a hash of the bounded search that yields no result, or a difficulty
\* not above the worker's local best, leaves the worker's best nonce,
\* difficulty and hash and the global best as they are; a hash of the
\* benchmark that yields no result leaves the total and the histogram as they
\* are; the nonce of a worker changes by exactly + 1, and a worker never
\* hashes a nonce it has already hashed.
C18_NoResultFrame ==
    /\ [][\A i \in Workers :
            /\ (/\ pc[i] = "hash"
                /\ (pc'[i] # pc[i] \/ nonce'[i] # nonce[i])
                /\ \/ ~Outcome(nonce[i]).ok
                   \/ Difficulty(Outcome(nonce[i]).hx) <= best_difficulty[i])
                  => /\ best_nonce'[i] = best_nonce[i]
                     /\ best_difficulty'[i] = best_difficulty[i]
                     /\ best_hash'[i] = best_hash[i]
                     /\ global_best_difficulty' = global_best_difficulty
            /\ (pc[i] # "spawned" /\ nonce'[i] # nonce[i])
                  => nonce'[i] = nonce[i] + 1]_vars
    /\ [][\A i \in BenchWorkers :
            /\ (pc[i] = "hash" /\ pc'[i] = "incr")
                  => /\ total_hashes' = total_hashes
                     /\ hash_count' = hash_count
            /\ (pc[i] # "spawned" /\ nonce'[i] # nonce[i])
                  => nonce'[i] = nonce[i] + 1]_vars
    /\ [](\A i \in Workers : pc[i] = "hash" => nonce[i] \notin scanned[i])

\* C19: the nonce of a worker in its loop is below MAX_NONCE, so that its
\* increment stays within the nonce domain, and the nonce of a worker never
\* decreases.
C19_NonceNeverWraps ==
    /\ [](\A i \in Workers : Running(i) => nonce[i] < MAX_NONCE)
    /\ [][\A i \in Workers :
            pc[i] # "spawned" => nonce'[i] >= nonce[i]]_vars

\* C20, as claimed: the sets of nonces hashed by two different workers are
\* disjoint.
C20_ScannedDisjoint ==
    \A i, j \in Workers : i # j => scanned[i] \cap scanned[j] = {}

\* the range of worker i: from its start nonce up to the nonce before the
\* start nonce of worker i + 1
OwnRange(i) ==
    LET width == MAX_NONCE \div cores
    IN  (width * i) .. (width * i + width - 1)

\* C20, amended: the first floor(MAX_NONCE / W) nonces that a worker hashes
\* lie in its own range, and the ranges are disjoint; so the sets of nonces
\* hashed by two different workers are disjoint as long as each of them has
\* hashed at most floor(MAX_NONCE / W) nonces.
C20_DisjointWithinRange ==
    LET width == MAX_NONCE \div cores
    IN  /\ \A i \in Workers :
              Cardinality(scanned[i]) <= width => scanned[i] \subseteq OwnRange(i)
        /\ \A i, j \in Workers : i # j => OwnRange(i) \cap OwnRange(j) = {}
        /\ \A i, j \in Workers :
              (/\ i # j
               /\ Cardinality(scanned[i]) <= width
               /\ Cardinality(scanned[j]) <= width)
                  => scanned[i] \cap scanned[j] = {}

C20_Witness ==
    /\ cores = 2
    /\ Cardinality(scanned[0]) = MAX_NONCE \div cores
    /\ StartNonce(cores, 1) \in scanned[1]

====
